---- MODULE Spec2Model ----
(***************************************************************************)
(* A model of the notebook 04_keras_CNN.ipynb: the cells of the notebook   *)
(* are the steps of the state machine, the names bound in the kernel are   *)
(* the variables.  Arrays are represented by their shape, their dtype and  *)
(* the value held at one arbitrary index (the probe): every operation the  *)
(* notebook applies to an array is elementwise or row-wise, so what holds  *)
(* of the probe for every choice of its raw value holds of every element.  *)
(***************************************************************************)
EXTENDS Integers, Sequences, FiniteSets, TLC

VARIABLES
    pc,                 \* the next cell (or step inside a cell) to run
    cifar,              \* the dataset as cifar10.load_data() returns it
    X_train, y_train, X_test, y_test,
    Y_train, Y_test,
    seq,                \* the Sequential() object built by the second code cell
    fun,                \* the Model(...) object built by the third code cell
    model,              \* what the name `model` is bound to: "none", "seq", "fun"
    summary,            \* the rows printed by model.summary()
    compiled,           \* the compile calls made so far
    batch_size, nb_epoch, data_augmentation,
    datagen,            \* the ImageDataGenerator configuration, or NoGen
    calls,              \* the library calls made by the training cell, in order
    epoch,              \* epochs completed by the running training call
    samples_seen,       \* samples consumed in the current epoch
    batch_index,        \* NumpyArrayIterator.batch_index
    batches             \* the batches drawn in the current epoch: how many, how
                        \* many full ones, start and size of the last one

vars == <<pc, cifar, X_train, y_train, X_test, y_test, Y_train, Y_test,
          seq, fun, model, summary, compiled,
          batch_size, nb_epoch, data_augmentation, datagen, calls,
          epoch, samples_seen, batch_index, batches>>

----------------------------------------------------------------------------
(* Program constants of the first code cell and of the dataset.            *)

nb_classes == 10
img_rows == 32
img_cols == 32
img_channels == 3
TrainSamples == 50000
TestSamples == 10000
MaxPixel == 255

Pixels == 0 .. MaxPixel
Labels == 0 .. (nb_classes - 1)

----------------------------------------------------------------------------
(* float32: a value is m / 2^k with a 24-bit significand m, or zero.       *)

MantBits == 24
Pow2(n) == 2 ^ n
MantLo == Pow2(MantBits - 1)
MantHi == Pow2(MantBits)

FZero == [m |-> 0, k |-> 0]
FOne == [m |-> MantLo, k |-> MantBits - 1]

\* a < b for two float32 values that are zero or positive and normalised
FLess(a, b) ==
    IF a.m = 0 THEN b.m > 0
    ELSE IF b.m = 0 THEN FALSE
    ELSE \/ a.k > b.k
         \/ a.k = b.k /\ a.m < b.m

FLeq(a, b) == a = b \/ FLess(a, b)

\* The quotient n / d in float32, round to nearest even: q = floor(n*2^k/d)
\* and r = n*2^k mod d are doubled until q fills the significand.
RECURSIVE DivLoop(_, _, _, _)
DivLoop(q, r, k, d) ==
    IF q >= MantLo
    THEN LET up == (2 * r > d) \/ (2 * r = d /\ q % 2 = 1)
             m == IF up THEN q + 1 ELSE q
         IN  IF m = MantHi THEN [m |-> MantLo, k |-> k - 1]
                          ELSE [m |-> m, k |-> k]
    ELSE DivLoop(2 * q + (IF 2 * r >= d THEN 1 ELSE 0), (2 * r) % d, k + 1, d)

FloatDiv(n, d) == IF n = 0 THEN FZero ELSE DivLoop(n \div d, n % d, 0, d)

\* Python 2 division of an integer array by an integer: floor division
IntDiv(n, d) == IF n \div d = 0 THEN FZero
                ELSE [m |-> (n \div d) * MantLo, k |-> MantBits - 1]

\* X / 255 without the conversion to float32
IntDiv255(p) == IntDiv(p, MaxPixel)

\* X.astype('float32') / 255 at one element
Normalize(p) == FloatDiv(p, MaxPixel)

\* 255*m - p*2^k for x = [m, k], computed in two 16-bit halves so that no
\* intermediate exceeds 31 bits; the halves differ by at most one unit.
Half == Pow2(16)
ErrNum(p, x) ==
    LET lo == MaxPixel * (x.m % Half)
        ah == MaxPixel * (x.m \div Half) + (lo \div Half)
        al == lo % Half
        bh == IF x.k >= 16 THEN p * Pow2(x.k - 16) ELSE 0
        bl == IF x.k >= 16 THEN 0 ELSE p * Pow2(x.k)
    IN  IF ah - bh > 1 THEN Half ELSE IF bh - ah > 1 THEN 0 - Half
        ELSE (ah - bh) * Half + (al - bl)

Abs(i) == IF i < 0 THEN 0 - i ELSE i

----------------------------------------------------------------------------
(* Arrays: shape, dtype and the value at the probe index.                  *)

Arr(shape, dtype, at) == [shape |-> shape, dtype |-> dtype, at |-> at]
NoArr == Arr(<<>>, "none", 0)

ImgShape(n) == <<n, img_rows, img_cols, img_channels>>

\* np_utils.to_categorical at one label: a row of nb_classes entries
OneHotShift(t, n) == [i \in 1 .. n |-> IF i = ((t + 1) % n) + 1 THEN 1 ELSE 0]
OneHot(t, n) == [i \in 1 .. n |-> IF i = t + 1 THEN 1 ELSE 0]

to_categorical(y, n) == Arr(<<y.shape[1], n>>, "float64", OneHot(y.at, n))

\* the index of the (first) 1 of a row, 0-based; -1 if there is none
ArgOne(row) ==
    IF \E i \in 1 .. Len(row) : row[i] = 1
    THEN (CHOOSE i \in 1 .. Len(row) :
             row[i] = 1 /\ \A j \in 1 .. (i - 1) : row[j] # 1) - 1
    ELSE 0 - 1

----------------------------------------------------------------------------
(* Layers.  Every layer is a record of the same fields; a field a layer    *)
(* type does not have holds the neutral value.                             *)

NoShape == <<>>
Dec(num, den) == <<num, den>>          \* a decimal literal num/den
NoRate == Dec(0, 1)

Layer(type, units, kernel, border, activation, rate, input_shape) ==
    [type |-> type, units |-> units, kernel |-> kernel, border |-> border,
     activation |-> activation, rate |-> rate, input_shape |-> input_shape]

\* Convolution2D(nb_filter, nb_row, nb_col, activation=None, border_mode='valid')
Convolution2D(nb_filter, nb_row, nb_col, activation, border_mode, input_shape) ==
    Layer("Convolution2D", nb_filter, <<nb_row, nb_col>>, border_mode,
          activation, NoRate, input_shape)
Activation(name) == Layer("Activation", 0, <<>>, "none", name, NoRate, NoShape)
MaxPooling2D(pool_size) ==
    Layer("MaxPooling2D", 0, pool_size, "valid", "none", NoRate, NoShape)
Dropout(p) == Layer("Dropout", 0, <<>>, "none", "none", p, NoShape)
Flatten == Layer("Flatten", 0, <<>>, "none", "none", NoRate, NoShape)
Dense(output_dim, activation) ==
    Layer("Dense", output_dim, <<>>, "none", activation, NoRate, NoShape)
Input(shape) == Layer("InputLayer", 0, <<>>, "none", "none", NoRate, shape)

\* The layers handed to model.add, in order (sequential API cell).
SeqProgramNoPool(shape) ==
    << Convolution2D(32, 3, 3, "linear", "same", shape),
       Activation("relu"),
       Convolution2D(32, 3, 3, "linear", "valid", NoShape),
       Activation("relu"),
       Dropout(Dec(25, 100)),
       Convolution2D(64, 3, 3, "linear", "same", NoShape),
       Activation("relu"),
       Convolution2D(64, 3, 3, "linear", "valid", NoShape),
       Activation("relu"),
       MaxPooling2D(<<2, 2>>),
       Dropout(Dec(25, 100)),
       Flatten,
       Dense(512, "linear"),
       Activation("relu"),
       Dropout(Dec(5, 10)),
       Dense(nb_classes, "linear"),
       Activation("softmax") >>

SeqProgram(shape) ==
    << Convolution2D(32, 3, 3, "linear", "same", shape),
       Activation("relu"),
       Convolution2D(32, 3, 3, "linear", "valid", NoShape),
       Activation("relu"),
       MaxPooling2D(<<2, 2>>),
       Dropout(Dec(25, 100)),
       Convolution2D(64, 3, 3, "linear", "same", NoShape),
       Activation("relu"),
       Convolution2D(64, 3, 3, "linear", "valid", NoShape),
       Activation("relu"),
       MaxPooling2D(<<2, 2>>),
       Dropout(Dec(25, 100)),
       Flatten,
       Dense(512, "linear"),
       Activation("relu"),
       Dropout(Dec(5, 10)),
       Dense(nb_classes, "linear"),
       Activation("softmax") >>

\* The layers of the graph from model_in to model_out (functional API cell).
FunProgramAllSame(shape) ==
    << Input(shape),
       Convolution2D(32, 3, 3, "relu", "same", NoShape),
       Convolution2D(32, 3, 3, "relu", "same", NoShape),
       MaxPooling2D(<<2, 2>>),
       Dropout(Dec(25, 100)),
       Convolution2D(64, 3, 3, "relu", "same", NoShape),
       Convolution2D(64, 3, 3, "relu", "same", NoShape),
       MaxPooling2D(<<2, 2>>),
       Dropout(Dec(25, 100)),
       Flatten,
       Dense(512, "relu"),
       Dropout(Dec(5, 10)),
       Dense(nb_classes, "linear"),
       Activation("softmax") >>

FunProgram(shape) ==
    << Input(shape),
       Convolution2D(32, 3, 3, "relu", "same", NoShape),
       Convolution2D(32, 3, 3, "relu", "valid", NoShape),
       MaxPooling2D(<<2, 2>>),
       Dropout(Dec(25, 100)),
       Convolution2D(64, 3, 3, "relu", "same", NoShape),
       Convolution2D(64, 3, 3, "relu", "valid", NoShape),
       MaxPooling2D(<<2, 2>>),
       Dropout(Dec(25, 100)),
       Flatten,
       Dense(512, "relu"),
       Dropout(Dec(5, 10)),
       Dense(nb_classes, "linear"),
       Activation("softmax") >>

----------------------------------------------------------------------------
(* Shape inference and weight counts, as the library builds a layer on its *)
(* input: border_mode 'same' keeps width and height, 'valid' takes k-1     *)
(* off each, pooling strides equal the pool size.                          *)

Prod(s) == IF Len(s) = 0 THEN 1
           ELSE IF Len(s) = 1 THEN s[1]
           ELSE IF Len(s) = 2 THEN s[1] * s[2]
           ELSE s[1] * s[2] * s[3]

ConvLen(n, k, border) == IF border = "same" THEN n ELSE n - k + 1
PoolLenCeil(n, p) == (n + p - 1) \div p
PoolLen(n, p) == n \div p

\* the per-sample output shape of layer l applied to an input of shape s
OutShape(l, s) ==
    CASE l.type = "InputLayer"    -> l.input_shape
      [] l.type = "Convolution2D" ->
             << ConvLen(s[1], l.kernel[1], l.border),
                ConvLen(s[2], l.kernel[2], l.border), l.units >>
      [] l.type = "MaxPooling2D"  ->
             << PoolLen(s[1], l.kernel[1]), PoolLen(s[2], l.kernel[2]), s[3] >>
      [] l.type = "Flatten"       -> << Prod(s) >>
      [] l.type = "Dense"         -> << l.units >>
      [] OTHER                    -> s

\* the number of trainable weights of layer l applied to an input of shape s
ParamCountNoBias(l, s) ==
    CASE l.type = "Convolution2D" ->
             l.units * s[3] * l.kernel[1] * l.kernel[2]
      [] l.type = "Dense"         -> s[1] * l.units
      [] OTHER                    -> 0
ParamCount(l, s) ==
    CASE l.type = "Convolution2D" ->
             l.units * s[3] * l.kernel[1] * l.kernel[2] + l.units
      [] l.type = "Dense"         -> s[1] * l.units + l.units
      [] OTHER                    -> 0

\* the output shapes of the layers from position i on, s being the shape
\* that enters layer i
RECURSIVE Walk(_, _, _)
Walk(layers, i, s) ==
    IF i > Len(layers) THEN <<>>
    ELSE LET o == OutShape(layers[i], s)
         IN  << o >> \o Walk(layers, i + 1, o)

\* the first layer of a stack carries the input shape
Shapes(layers) == Walk(layers, 1, layers[1].input_shape)
InShapes(layers) ==
    LET out == Shapes(layers)
    IN  [i \in 1 .. Len(layers) |->
            IF i = 1 THEN layers[1].input_shape ELSE out[i - 1]]
Params(layers) ==
    LET in == InShapes(layers)
    IN  [i \in 1 .. Len(layers) |-> ParamCount(layers[i], in[i])]

RECURSIVE SumSeq(_)
SumSeq(s) == IF s = <<>> THEN 0 ELSE s[1] + SumSeq(Tail(s))

\* model.summary(): one row per layer, and the total
Row(type, shape, params) == [type |-> type, shape |-> shape, params |-> params]
Summarize(layers) ==
    LET out == Shapes(layers)
        par == Params(layers)
    IN  [rows |-> [i \in 1 .. Len(layers) |-> Row(layers[i].type, out[i], par[i])],
         total |-> SumSeq(par)]

\* what the notebook's saved output of print(model.summary()) shows
SummaryOutput ==
    [rows |-> << Row("InputLayer",    <<32, 32, 3>>,  0),
                 Row("Convolution2D", <<32, 32, 32>>, 896),
                 Row("Convolution2D", <<30, 30, 32>>, 9248),
                 Row("MaxPooling2D",  <<15, 15, 32>>, 0),
                 Row("Dropout",       <<15, 15, 32>>, 0),
                 Row("Convolution2D", <<15, 15, 64>>, 18496),
                 Row("Convolution2D", <<13, 13, 64>>, 36928),
                 Row("MaxPooling2D",  <<6, 6, 64>>,   0),
                 Row("Dropout",       <<6, 6, 64>>,   0),
                 Row("Flatten",       <<2304>>,       0),
                 Row("Dense",         <<512>>,        1180160),
                 Row("Dropout",       <<512>>,        0),
                 Row("Dense",         <<10>>,         5130),
                 Row("Activation",    <<10>>,         0) >>,
     total |-> 1250858]

\* A layer given activation='relu' is the layer followed by Activation('relu');
\* the Input layer is the input_shape argument of the first layer.
RECURSIVE Unfused(_)
Unfused(layers) ==
    IF layers = <<>> THEN <<>>
    ELSE LET l == layers[1]
             rest == Unfused(Tail(layers))
         IN  IF l.type \in {"Convolution2D", "Dense"} /\ l.activation # "linear"
             THEN << [l EXCEPT !.activation = "linear"],
                     Activation(l.activation) >> \o rest
             ELSE << l >> \o rest

AsStack(layers) ==
    IF layers # <<>> /\ layers[1].type = "InputLayer" /\ Len(layers) > 1
    THEN LET u == Unfused(Tail(layers))
         IN  << [u[1] EXCEPT !.input_shape = layers[1].input_shape] >> \o Tail(u)
    ELSE Unfused(layers)

----------------------------------------------------------------------------
(* The state before the first cell runs.                                   *)

Dataset(p1, t1, p2, t2) ==
    [X_train |-> Arr(ImgShape(TrainSamples), "uint8", p1),
     y_train |-> Arr(<<TrainSamples, 1>>, "uint8", t1),
     X_test  |-> Arr(ImgShape(TestSamples), "uint8", p2),
     y_test  |-> Arr(<<TestSamples, 1>>, "uint8", t2)]

NoModel == [api |-> "none", layers |-> <<>>]
NoSummary == [rows |-> <<>>, total |-> 0]
NoGen == [configured |-> FALSE]
NoBatches == [count |-> 0, full |-> 0, start |-> 0, size |-> 0]

Fresh ==
    /\ pc = "cell1"
    /\ X_train = NoArr /\ y_train = NoArr /\ X_test = NoArr /\ y_test = NoArr
    /\ Y_train = NoArr /\ Y_test = NoArr
    /\ seq = NoModel /\ fun = NoModel /\ model = "none"
    /\ summary = NoSummary
    /\ compiled = <<>>
    /\ batch_size = 0 /\ nb_epoch = 0 /\ data_augmentation = FALSE
    /\ datagen = NoGen
    /\ calls = <<>>
    /\ epoch = 0 /\ samples_seen = 0 /\ batch_index = 0
    /\ batches = NoBatches

\* The whole notebook is followed for the extreme pixel and label values.
Init ==
    /\ \E b \in BOOLEAN :
           cifar = IF b THEN Dataset(0, 0, MaxPixel, nb_classes - 1)
                        ELSE Dataset(MaxPixel, nb_classes - 1, 0, 0)
    /\ Fresh

\* The data cell is followed for every pair of pixel values and every pair
\* of labels.
InitData ==
    /\ \/ \E p1 \in Pixels, p2 \in Pixels : cifar = Dataset(p1, 3, p2, 3)
       \/ \E t1 \in Labels, t2 \in Labels : cifar = Dataset(0, t1, MaxPixel, t2)
    /\ Fresh

----------------------------------------------------------------------------
(* Cell 1: load, normalise, one-hot encode.                                *)

astype_div(X) == Arr(X.shape, "float32", Normalize(X.at))

Cell1 ==
    /\ pc = "cell1"
    /\ X_train' = astype_div(cifar.X_train)
    /\ X_test' = astype_div(cifar.X_test)
    /\ y_train' = cifar.y_train
    /\ y_test' = cifar.y_test
    /\ Y_train' = to_categorical(cifar.y_train, nb_classes)
    /\ Y_test' = to_categorical(cifar.y_test, nb_classes)
    /\ pc' = "cell2"
    /\ UNCHANGED <<cifar, seq, fun, model, summary, compiled, batch_size,
                   nb_epoch, data_augmentation, datagen, calls, epoch,
                   samples_seen, batch_index, batches>>

\* X_train.shape[1:]
SampleShape(X) == Tail(X.shape)

(* Cell 2: model = Sequential(), then one model.add per layer.             *)
SeqNew ==
    /\ pc = "cell2"
    /\ seq' = [api |-> "sequential", layers |-> <<>>]
    /\ model' = "seq"
    /\ pc' = "cell2_add"
    /\ UNCHANGED <<cifar, X_train, y_train, X_test, y_test, Y_train, Y_test,
                   fun, summary, compiled, batch_size, nb_epoch,
                   data_augmentation, datagen, calls, epoch, samples_seen,
                   batch_index, batches>>

SeqAdd ==
    /\ pc = "cell2_add"
    /\ LET prog == SeqProgram(SampleShape(X_train))
           i == Len(seq.layers) + 1
       IN  /\ seq' = [seq EXCEPT !.layers = Append(@, prog[i])]
           /\ pc' = IF i = Len(prog) THEN "cell3" ELSE "cell2_add"
    /\ UNCHANGED <<cifar, X_train, y_train, X_test, y_test, Y_train, Y_test,
                   fun, model, summary, compiled, batch_size, nb_epoch,
                   data_augmentation, datagen, calls, epoch, samples_seen,
                   batch_index, batches>>

\* the functional cell binding its Model to another name than `model`
Cell3OtherName ==
    /\ pc = "cell3"
    /\ fun' = [api |-> "functional",
               layers |-> FunProgram(SampleShape(X_train))]
    /\ pc' = "cell4"
    /\ UNCHANGED <<cifar, X_train, y_train, X_test, y_test, Y_train, Y_test,
                   seq, model, summary, compiled, batch_size, nb_epoch,
                   data_augmentation, datagen, calls, epoch, samples_seen,
                   batch_index, batches>>

(* Cell 3: the functional graph and model = Model(input, output).          *)
Cell3 ==
    /\ pc = "cell3"
    /\ fun' = [api |-> "functional",
               layers |-> FunProgram(SampleShape(X_train))]
    /\ model' = "fun"
    /\ pc' = "cell4"
    /\ UNCHANGED <<cifar, X_train, y_train, X_test, y_test, Y_train, Y_test,
                   seq, summary, compiled, batch_size, nb_epoch,
                   data_augmentation, datagen, calls, epoch, samples_seen,
                   batch_index, batches>>

\* the object the name `model` is bound to
Bound == IF model = "seq" THEN seq ELSE IF model = "fun" THEN fun ELSE NoModel

(* Cell 4: print(model.summary())                                          *)
Cell4 ==
    /\ pc = "cell4"
    /\ summary' = Summarize(Bound.layers)
    /\ pc' = "cell5"
    /\ UNCHANGED <<cifar, X_train, y_train, X_test, y_test, Y_train, Y_test,
                   seq, fun, model, compiled, batch_size, nb_epoch,
                   data_augmentation, datagen, calls, epoch, samples_seen,
                   batch_index, batches>>

(* Cell 5: model.compile(...)                                              *)
SGD == [lr |-> Dec(1, 100), decay |-> Dec(1, 1000000),
        momentum |-> Dec(9, 10), nesterov |-> TRUE]

Cell5 ==
    /\ pc = "cell5"
    /\ compiled' = Append(compiled,
                          [on |-> model, loss |-> "categorical_crossentropy",
                           optimizer |-> SGD, metrics |-> <<"accuracy">>])
    /\ pc' = "cell6"
    /\ UNCHANGED <<cifar, X_train, y_train, X_test, y_test, Y_train, Y_test,
                   seq, fun, model, summary, batch_size, nb_epoch,
                   data_augmentation, datagen, calls, epoch, samples_seen,
                   batch_index, batches>>

(* Cell 6: the training parameters.  The notebook as saved sets the toggle *)
(* to True; it is the switch the reader is meant to flip, so both values   *)
(* are followed.                                                           *)
BatchSize == 128
NbEpoch == 200

Cell6 ==
    /\ pc = "cell6"
    /\ batch_size' = BatchSize
    /\ nb_epoch' = NbEpoch
    /\ data_augmentation' \in BOOLEAN
    /\ pc' = "cell7"
    /\ UNCHANGED <<cifar, X_train, y_train, X_test, y_test, Y_train, Y_test,
                   seq, fun, model, summary, compiled, datagen, calls, epoch,
                   samples_seen, batch_index, batches>>

----------------------------------------------------------------------------
(* Cell 7: the training call.                                              *)

ImageDataGenerator ==
    [configured |-> TRUE,
     featurewise_center |-> FALSE,
     samplewise_center |-> FALSE,
     featurewise_std_normalization |-> FALSE,
     samplewise_std_normalization |-> FALSE,
     zca_whitening |-> FALSE,
     rotation_range |-> Dec(0, 1),
     width_shift_range |-> Dec(1, 10),
     height_shift_range |-> Dec(1, 10),
     horizontal_flip |-> TRUE,
     vertical_flip |-> FALSE]

\* a library call: the arrays are passed by name, absent arguments are
\* "none" or 0
Call(fn, on, x, y, bs, epochs, spe, val) ==
    [fn |-> fn, on |-> on, x |-> x, y |-> y, batch_size |-> bs,
     nb_epoch |-> epochs, samples_per_epoch |-> spe, validation |-> val]

NoVal == <<>>

\* samples_per_epoch=X_train.shape[0]
samples_per_epoch_whole == (X_train.shape[1] \div batch_size) * batch_size
samples_per_epoch == X_train.shape[1]

\* the branch taken when data_augmentation is False
FitBranchBoth ==
    << Call("model.fit", model, "X_train", "Y_train", batch_size, nb_epoch,
            0, <<"X_test", "Y_test">>),
       Call("model.fit_generator", model, "datagen.flow", "datagen.flow", 0,
            nb_epoch, samples_per_epoch, <<"X_test", "Y_test">>) >>
FitBranch ==
    << Call("model.fit", model, "X_train", "Y_train", batch_size, nb_epoch,
            0, <<"X_test", "Y_test">>) >>

\* the branch taken when data_augmentation is True
GenBranch ==
    << Call("ImageDataGenerator", "none", "none", "none", 0, 0, 0, NoVal),
       Call("datagen.fit", "datagen", "X_train", "none", 0, 0, 0, NoVal),
       Call("datagen.flow", "datagen", "X_train", "Y_train", batch_size, 0,
            0, NoVal),
       Call("model.fit_generator", model, "datagen.flow", "datagen.flow", 0,
            nb_epoch, samples_per_epoch, <<"X_test", "Y_test">>) >>

Last(s) == s[Len(s)]

Cell7 ==
    /\ pc = "cell7"
    /\ IF ~data_augmentation
       THEN /\ calls' = FitBranch
            /\ datagen' = datagen
            /\ pc' = "fit"
       ELSE /\ datagen' = ImageDataGenerator
            /\ calls' = GenBranch
            /\ pc' = "gen"
    /\ epoch' = 0
    /\ samples_seen' = 0
    /\ batch_index' = 0
    /\ batches' = NoBatches
    /\ UNCHANGED <<cifar, X_train, y_train, X_test, y_test, Y_train, Y_test,
                   seq, fun, model, summary, compiled, batch_size, nb_epoch,
                   data_augmentation>>

\* the array a name passed to a call stands for
Named(name) ==
    CASE name = "X_train" -> X_train
      [] name = "Y_train" -> Y_train
      [] name = "X_test"  -> X_test
      [] name = "Y_test"  -> Y_test
      [] OTHER            -> NoArr

\* the arguments of the datagen.flow call feeding fit_generator
FlowCall == CHOOSE c \in {calls[i] : i \in 1 .. Len(calls)} : c.fn = "datagen.flow"

(* model.fit: one step per epoch over the training arrays.                 *)
FitEpoch ==
    /\ pc = "fit"
    /\ epoch < Last(calls).nb_epoch
    /\ epoch' = epoch + 1
    /\ UNCHANGED <<pc, cifar, X_train, y_train, X_test, y_test, Y_train,
                   Y_test, seq, fun, model, summary, compiled, batch_size,
                   nb_epoch, data_augmentation, datagen, calls, samples_seen,
                   batch_index, batches>>

(* model.fit_generator: batches are taken from the iterator until          *)
(* samples_per_epoch samples have been seen, then the epoch ends.          *)
(* NumpyArrayIterator hands out index_array[current_index :                *)
(* current_index + current_batch_size] of a permutation of the N samples.  *)
GenBatch ==
    /\ pc = "gen"
    /\ epoch < Last(calls).nb_epoch
    /\ samples_seen < Last(calls).samples_per_epoch
    /\ LET N == Named(FlowCall.x).shape[1]
           bs == FlowCall.batch_size
           current_index == (batch_index * bs) % N
           whole == N >= current_index + bs
           current_batch_size == IF whole THEN bs ELSE N - current_index
       IN  /\ batch_index' = IF whole THEN batch_index + 1 ELSE 0
           /\ samples_seen' = samples_seen + current_batch_size
           /\ batches' = [count |-> batches.count + 1,
                          full |-> batches.full +
                                   (IF current_batch_size = bs THEN 1 ELSE 0),
                          start |-> current_index,
                          size |-> current_batch_size]
    /\ UNCHANGED <<pc, cifar, X_train, y_train, X_test, y_test, Y_train,
                   Y_test, seq, fun, model, summary, compiled, batch_size,
                   nb_epoch, data_augmentation, datagen, calls, epoch>>

GenEpochEnd ==
    /\ pc = "gen"
    /\ epoch < Last(calls).nb_epoch
    /\ samples_seen >= Last(calls).samples_per_epoch
    /\ epoch' = epoch + 1
    /\ samples_seen' = 0
    /\ batches' = NoBatches
    /\ UNCHANGED <<pc, cifar, X_train, y_train, X_test, y_test, Y_train,
                   Y_test, seq, fun, model, summary, compiled, batch_size,
                   nb_epoch, data_augmentation, datagen, calls, batch_index>>

(* Either training call returns once nb_epoch epochs are complete.         *)
TrainReturn ==
    /\ pc \in {"fit", "gen"}
    /\ epoch >= Last(calls).nb_epoch
    /\ pc' = "done"
    /\ UNCHANGED <<cifar, X_train, y_train, X_test, y_test, Y_train, Y_test,
                   seq, fun, model, summary, compiled, batch_size, nb_epoch,
                   data_augmentation, datagen, calls, epoch, samples_seen,
                   batch_index, batches>>

----------------------------------------------------------------------------
Next ==
    \/ Cell1 \/ SeqNew \/ SeqAdd \/ Cell3 \/ Cell4 \/ Cell5 \/ Cell6
    \/ Cell7 \/ FitEpoch \/ GenBatch \/ GenEpochEnd \/ TrainReturn

Spec == Init /\ [][Next]_vars

\* the kernel runs a cell that is ready to run
FairSpec == Init /\ [][Next]_vars /\ WF_vars(Next)

NextData == Cell1
SpecData == InitData /\ [][NextData]_vars

----------------------------------------------------------------------------
(* The declared network.                                                   *)

Bare(l) == [l EXCEPT !.input_shape = NoShape]
BareAll(layers) == [i \in 1 .. Len(layers) |-> Bare(layers[i])]

ConvBlock(n) ==
    << Convolution2D(n, 3, 3, "linear", "same", NoShape), Activation("relu"),
       Convolution2D(n, 3, 3, "linear", "valid", NoShape), Activation("relu"),
       MaxPooling2D(<<2, 2>>), Dropout(Dec(25, 100)) >>

Declared ==
    ConvBlock(32) \o ConvBlock(64) \o
    << Flatten, Dense(512, "linear"), Activation("relu"), Dropout(Dec(5, 10)),
       Dense(10, "linear"), Activation("softmax") >>

IsPrefix(a, b) == Len(a) <= Len(b) /\ \A i \in 1 .. Len(a) : a[i] = b[i]

\* the filter counts of the convolutions of a stack, in order
RECURSIVE Widths(_)
Widths(layers) ==
    IF layers = <<>> THEN <<>>
    ELSE (IF layers[1].type = "Convolution2D" THEN << layers[1].units >>
          ELSE <<>>) \o Widths(Tail(layers))

SeqBuilt == seq.api = "sequential" /\ pc # "cell2_add"

\* C1: the sequential cell declares exactly conv-relu-conv-relu-pool-dropout
\* with 32 filters, the same block with 64 filters, then flatten, dense 512,
\* relu, dropout 0.5, dense 10, softmax: while the cell runs the stack is a
\* prefix of that sequence, once it has run the stack is that sequence, the
\* filter counts are 32, 32, 64, 64 and the last layer is the softmax.
C1_DeclaredNetwork ==
    /\ seq.api = "sequential" => IsPrefix(BareAll(seq.layers), Declared)
    /\ SeqBuilt =>
          /\ BareAll(seq.layers) = Declared
          /\ Widths(seq.layers) = <<32, 32, 64, 64>>
          /\ Last(seq.layers) = Activation("softmax")
          /\ seq.layers[1].input_shape = <<32, 32, 3>>

C1_Witness == pc = "cell3" /\ Len(seq.layers) = 18

----------------------------------------------------------------------------
(* The two declarations side by side.                                      *)

Fused(l) == l.type \in {"Convolution2D", "Dense"} /\ l.activation # "linear"

\* the number of layers of f before position j that carry their activation
RECURSIVE FusedBefore(_, _)
FusedBefore(f, j) ==
    IF j <= 1 THEN 0
    ELSE FusedBefore(f, j - 1) + (IF Fused(f[j - 1]) THEN 1 ELSE 0)

\* the position in the sequential stack of the layer at position j >= 2 of
\* the functional graph
SeqIndex(f, j) == (j - 1) + FusedBefore(f, j)

FunBuilt == fun.api = "functional"

\* C2: the two declarations are equivalent: every layer of the functional
\* graph after the Input is the layer at the corresponding place of the
\* sequential stack, with the same hyperparameters; its activation argument
\* is the Activation layer that follows there; both start from
\* X_train.shape[1:]; the output shape after every stage, the weight count of
\* every layer and the total weight count are the same.
C2_ApisEquivalent ==
    FunBuilt =>
        LET f == fun.layers
            q == seq.layers
            fs == Shapes(f)
            qs == Shapes(q)
            fp == Params(f)
            qp == Params(q)
        IN  /\ f[1].type = "InputLayer"
            /\ f[1].input_shape = SampleShape(X_train)
            /\ q[1].input_shape = SampleShape(X_train)
            /\ Len(q) = SeqIndex(f, Len(f) + 1) - 1
            /\ \A j \in 2 .. Len(f) :
                  LET i == SeqIndex(f, j)
                      e == IF Fused(f[j]) THEN i + 1 ELSE i
                  IN  /\ Bare(q[i]) = [f[j] EXCEPT !.activation =
                                          IF Fused(f[j]) THEN "linear" ELSE @]
                      /\ Fused(f[j]) => q[i + 1] = Activation(f[j].activation)
                      /\ qs[e] = fs[j]
                      /\ qp[i] = fp[j]
                      /\ Fused(f[j]) => qp[i + 1] = 0
            /\ SumSeq(qp) = SumSeq(fp)
            /\ AsStack(f) = q

C2_Witness == pc = "cell4" /\ FunBuilt /\ SeqBuilt /\ model = "fun"

----------------------------------------------------------------------------
(* The training cell.                                                      *)

TrainingFns == {"model.fit", "model.fit_generator"}
TrainCalls == SelectSeq(calls, LAMBDA c : c.fn \in TrainingFns)
TestNames == {"X_test", "Y_test"}
CellRan == pc \in {"fit", "gen", "done"}

\* C3: whichever way the toggle is set, the training cell makes exactly one
\* training call: model.fit when it is False, model.fit_generator fed by
\* datagen.flow when it is True.  Either way the call gets nb_epoch, the
\* batches have batch_size samples, the training data are (X_train, Y_train),
\* the validation data are (X_test, Y_test), and no call of the cell gets a
\* test array as its x or y, the generator's fit and flow included.
C3_OneTrainingRoutine ==
    /\ ~CellRan => calls = <<>>
    /\ CellRan =>
          /\ Len(TrainCalls) = 1
          /\ TrainCalls[1].fn = (IF data_augmentation THEN "model.fit_generator"
                                                      ELSE "model.fit")
          /\ TrainCalls[1].nb_epoch = nb_epoch
          /\ TrainCalls[1].validation = <<"X_test", "Y_test">>
          /\ TrainCalls[1].on = model
          /\ LET src == IF data_augmentation THEN FlowCall ELSE TrainCalls[1]
             IN  /\ src.x = "X_train" /\ src.y = "Y_train"
                 /\ src.batch_size = batch_size
          /\ data_augmentation => TrainCalls[1].x = "datagen.flow"
          /\ \A i \in 1 .. Len(calls) :
                calls[i].x \notin TestNames /\ calls[i].y \notin TestNames
          /\ nb_epoch = 200 /\ batch_size = 128

C3_Witness == pc = "done" /\ ~data_augmentation /\ Len(calls) = 1 /\ epoch = 200

----------------------------------------------------------------------------
(* The data cell.                                                          *)

Loaded == pc # "cell1"

InUnit(x) == FLeq(FZero, x) /\ FLeq(x, FOne)
Normalised(x) == x = FZero \/ (x.m >= MantLo /\ x.m < MantHi)

NormOk(raw, X) ==
    /\ X.shape = raw.shape
    /\ X.shape = ImgShape(raw.shape[1])
    /\ X.dtype = "float32"
    /\ Normalised(X.at)
    /\ InUnit(X.at)
    /\ raw.at = 0 => X.at = FZero
    /\ raw.at = 255 => X.at = FOne
    /\ 2 * Abs(ErrNum(raw.at, X.at)) <= 255

\* C4: after the data cell every pixel of X_train and X_test lies in [0, 1]:
\* the value for the raw pixel p is the float32 quotient p/255 (the float32
\* nearest to p/255), 0 gives 0, 255 gives 1, a larger raw pixel gives a
\* strictly larger value, and the shapes (samples, 32, 32, 3) are those of the
\* raw arrays.
C4_NormalizedRange ==
    Loaded =>
        /\ NormOk(cifar.X_train, X_train)
        /\ NormOk(cifar.X_test, X_test)
        /\ X_train.shape = <<50000, 32, 32, 3>>
        /\ X_test.shape = <<10000, 32, 32, 3>>
        /\ cifar.X_train.at < cifar.X_test.at => FLess(X_train.at, X_test.at)
        /\ cifar.X_train.at = cifar.X_test.at => X_train.at = X_test.at

C4_Witness ==
    /\ pc = "cell2" /\ cifar.X_train.at = 127 /\ cifar.X_test.at = 128
    /\ FLess(X_train.at, X_test.at) /\ FLess(X_test.at, FOne)

OneHotOk(raw, y, Y) ==
    /\ y = raw
    /\ Y.shape = <<raw.shape[1], nb_classes>>
    /\ Len(Y.at) = 10
    /\ Y.at[raw.at + 1] = 1
    /\ \A i \in 1 .. Len(Y.at) : i # raw.at + 1 => Y.at[i] = 0
    /\ ArgOne(Y.at) = raw.at
    /\ raw.at = 3 => Y.at = <<0, 0, 0, 1, 0, 0, 0, 0, 0, 0>>

\* C5: for every label t in 0..9 the encoded row has nb_classes = 10 entries,
\* a 1 at index t and 0 elsewhere; different labels give different rows, the
\* label is the index of the 1, Y_train and Y_test have one row per entry of
\* y_train and y_test, in the same order, and 3 gives [0,0,0,1,0,0,0,0,0,0].
C5_OneHotRows ==
    Loaded =>
        /\ OneHotOk(cifar.y_train, y_train, Y_train)
        /\ OneHotOk(cifar.y_test, y_test, Y_test)
        /\ Y_train.shape[1] = 50000 /\ Y_test.shape[1] = 10000
        /\ cifar.y_train.at # cifar.y_test.at => Y_train.at # Y_test.at

C5_Witness ==
    /\ pc = "cell2" /\ cifar.y_train.at = 3 /\ cifar.y_test.at = 9
    /\ Y_train.at[4] = 1 /\ Y_test.at[10] = 1

----------------------------------------------------------------------------
(* The summary.                                                            *)

Summarized == summary.rows # <<>>

ShapeColumn == [i \in 1 .. Len(summary.rows) |-> summary.rows[i].shape]
ParamColumn == [i \in 1 .. Len(summary.rows) |-> summary.rows[i].params]

\* out is floor(n / 2)
HalfOf(n, out) == 2 * out <= n /\ n < 2 * out + 2

\* C6: from a 32x32x3 input the output shapes are 32x32x32, 30x30x32,
\* 15x15x32 (pooling and dropout), 15x15x64, 13x13x64, 6x6x64 (pooling and
\* dropout), 2304, 512 (dense and dropout) and 10 (dense and softmax), as the
\* saved summary shows; a 'same' convolution keeps width and height, a 'valid'
\* one takes k-1 off each, a 2x2 pooling gives floor(n/2), and activation and
\* dropout layers keep the shape.
C6_OutputShapes ==
    Summarized =>
        /\ ShapeColumn =
              << <<32, 32, 3>>, <<32, 32, 32>>, <<30, 30, 32>>, <<15, 15, 32>>,
                 <<15, 15, 32>>, <<15, 15, 64>>, <<13, 13, 64>>, <<6, 6, 64>>,
                 <<6, 6, 64>>, <<2304>>, <<512>>, <<512>>, <<10>>, <<10>> >>
        /\ \A i \in 1 .. Len(summary.rows) :
              /\ summary.rows[i].shape = SummaryOutput.rows[i].shape
              /\ summary.rows[i].type = SummaryOutput.rows[i].type
        /\ \A i \in 2 .. Len(summary.rows) :
              LET l == Bound.layers[i]
                  in == summary.rows[i - 1].shape
                  out == summary.rows[i].shape
              IN  /\ l.type = "Convolution2D" /\ l.border = "same" =>
                        out[1] = in[1] /\ out[2] = in[2]
                  /\ l.type = "Convolution2D" /\ l.border = "valid" =>
                        /\ out[1] = in[1] - (l.kernel[1] - 1)
                        /\ out[2] = in[2] - (l.kernel[2] - 1)
                  /\ l.type = "MaxPooling2D" =>
                        /\ HalfOf(in[1], out[1]) /\ HalfOf(in[2], out[2])
                        /\ out[3] = in[3]
                  /\ l.type \in {"Activation", "Dropout"} => out = in

C6_Witness ==
    /\ pc = "cell5" /\ Len(summary.rows) = 14
    /\ summary.rows[8].type = "MaxPooling2D" /\ summary.rows[7].shape[1] = 13

\* C7: the weight counts are 896, 9248, 18496 and 36928 for the four
\* convolutions, 1180160 and 5130 for the two dense layers, 0 for every other
\* layer, 1250858 in total, as the saved summary shows; a convolution has
\* n_o*n_i*k*k weights and n_o biases, a dense layer n_i*n_o weights and n_o
\* biases, n_i being the channels (or the flattened size) of the stage before.
C7_ParamCounts ==
    Summarized =>
        /\ ParamColumn = << 0, 896, 9248, 0, 0, 18496, 36928, 0, 0, 0,
                            1180160, 0, 5130, 0 >>
        /\ summary.total = 1250858
        /\ summary.total = SumSeq(ParamColumn)
        /\ summary.total = SummaryOutput.total
        /\ \A i \in 1 .. Len(summary.rows) :
              summary.rows[i].params = SummaryOutput.rows[i].params
        /\ \A i \in 2 .. Len(summary.rows) :
              LET l == Bound.layers[i]
                  in == summary.rows[i - 1].shape
                  n == summary.rows[i].params
              IN  /\ l.type = "Convolution2D" =>
                        n = l.units * in[3] * l.kernel[1] * l.kernel[2] + l.units
                  /\ l.type = "Dense" =>
                        Len(in) = 1 /\ n = in[1] * l.units + l.units
                  /\ l.type \notin {"Convolution2D", "Dense"} => n = 0

C7_Witness ==
    /\ pc = "cell5" /\ summary.total > 0
    /\ summary.rows[11].type = "Dense" /\ summary.rows[10].shape = <<2304>>

----------------------------------------------------------------------------
(* The augmentation branch.                                                *)

Positive(d) == d[1] > 0

\* C9: with data augmentation switched on, the generator used for training
\* has rotations, shifts and flips all enabled.
C9_RotationsShiftsFlips ==
    datagen.configured =>
        /\ Positive(datagen.rotation_range)
        /\ Positive(datagen.width_shift_range) \/ Positive(datagen.height_shift_range)
        /\ datagen.horizontal_flip \/ datagen.vertical_flip

InGen == pc = "gen"
EpochFull == InGen /\ samples_seen >= Last(calls).samples_per_epoch

GenInv ==
    /\ InGen =>
          /\ epoch <= 200
          /\ Last(calls).nb_epoch = 200
          /\ Last(calls).samples_per_epoch = 50000
          /\ samples_seen <= 50000
          \* an epoch starts at the start of a pass of the iterator
          /\ samples_seen = 0 => batch_index = 0 /\ batches.count = 0
          /\ batches.count > 0 =>
                /\ batches.size >= 1 /\ batches.size <= 128
                \* every batch starts where the batches before it end
                /\ batches.start + batches.size = samples_seen
                /\ batches.start = 128 * (batches.count - 1)
                /\ batches.count <= 390 =>
                      batches.size = 128 /\ batches.full = batches.count
                /\ batches.count <= 391
    /\ EpochFull =>
          /\ samples_seen = 50000
          /\ batches.count = 391
          /\ batches.full = 390
          /\ batches.size = 80
          /\ batch_index = 0
    /\ pc = "done" /\ data_augmentation => epoch = 200

\* C10: in the augmentation branch the training call returns after exactly
\* 200 epochs, and an epoch is one pass over the training set: 50000 samples
\* in 391 batches, 390 of 128 and then one of 80, no batch larger than 128,
\* every batch the slice of the epoch's permutation that follows the batches
\* before it, so that each sample is drawn once.
C10_EpochIsOnePass == []GenInv /\ (InGen ~> (pc = "done" /\ epoch = 200))

C10_Witness ==
    /\ pc = "gen" /\ epoch = 199 /\ samples_seen = 50000
    /\ batches.count = 391 /\ batches.size = 80

----------------------------------------------------------------------------
(* Which model is summarized, compiled and trained.                        *)

Rebinds ==
    model' # model =>
        \/ model = "none" /\ model' = "seq"
        \/ model = "seq" /\ model' = "fun"

\* a compile call is made while no training call has been made, and a
\* training call only once the model is compiled
CompileFirst ==
    /\ compiled' # compiled => calls = <<>> /\ calls' = <<>>
    /\ calls' # calls => Len(compiled) = 1 /\ compiled' = compiled

UsesFunctional ==
    /\ Summarized =>
          /\ model = "fun"
          /\ summary = Summarize(fun.layers)
          /\ summary.rows[1].type = "InputLayer"
          /\ Len(summary.rows) # Len(seq.layers)
    /\ Len(compiled) <= 1
    /\ \A i \in 1 .. Len(compiled) :
          /\ compiled[i].on = "fun"
          /\ compiled[i].loss = "categorical_crossentropy"
          /\ compiled[i].optimizer = [lr |-> <<1, 100>>, decay |-> <<1, 1000000>>,
                                      momentum |-> <<9, 10>>, nesterov |-> TRUE]
          /\ compiled[i].metrics = <<"accuracy">>
    /\ \A i \in 1 .. Len(calls) : calls[i].on # "seq"
    /\ CellRan =>
          /\ Len(compiled) = 1
          /\ Len(TrainCalls) = 1
          /\ TrainCalls[1].on = "fun"
          /\ TrainCalls[1].on = compiled[1].on
          /\ model = "fun"
          /\ fun.api = "functional" /\ seq.api = "sequential"

\* C11: with the cells run once each from top to bottom, `model` is bound
\* first to the sequential model and then to the functional one and never
\* otherwise; the model summarized, compiled and trained is the functional
\* one, the sequential one is neither compiled nor trained; the compile call
\* (categorical_crossentropy, SGD with lr 0.01, decay 1e-6, momentum 0.9,
\* Nesterov, metric accuracy) is made exactly once, before the training call,
\* on the object that is trained.
C11_FunctionalModelTrained ==
    []UsesFunctional /\ [][Rebinds /\ CompileFirst]_vars

C11_Witness ==
    /\ pc = "done" /\ data_augmentation /\ model = "fun"
    /\ Len(compiled) = 1 /\ compiled[1].on = "fun" /\ Last(calls).on = "fun"
    /\ seq.api = "sequential"

====
